---------------------------- MODULE Spec2Model ----------------------------
(***************************************************************************)
(* Model of the /v1/messages handler of claude-code-copilot-router         *)
(* (src/unnamed/part_000, the later revision of src/index.mjs): request    *)
(* normalisation, the upstream call, and the loop that re-frames the       *)
(* upstream delta stream as message_start / content_block_* /              *)
(* message_delta / message_stop events.                                    *)
(*                                                                         *)
(* JavaScript values are tagged records (JUndef, JNull, JStr, JArr, JObj). *)
(* A JavaScript string is a sequence of atoms (TLA+ strings): `+` is \o,   *)
(* the empty string is << >>.  JSON text is a string whose atoms are JSON  *)
(* tokens; JSONParse and JSONStringify work on those tokens.               *)
(***************************************************************************)
EXTENDS Integers, Sequences, FiniteSets, TLC

VARIABLES
  pc,                    \* position of the handler: received, calling, streaming, done
  body,                  \* req.body
  data,                  \* the frozen request handed to client.call (NoData before)
  upstream,              \* the upstream call: pending, failed, open, closed, errored
  consumed,              \* the chunks the completion iterator has yielded so far
  events,                \* the SSE events written with res.write, in order
  headersSent,           \* res.headersSent
  ended,                 \* res.end() was called (res.json ends the response too)
  jsonResponses,         \* the bodies sent with res.status(..).json(..), in order
  completion,            \* let completion
  currentContentBlocks,  \* let currentContentBlocks
  toolUseJson,           \* let toolUseJson
  isToolUse,             \* let isToolUse
  hasStartedTextBlock,   \* let hasStartedTextBlock
  contentBlockIndex,     \* let contentBlockIndex
  \* The SSE decoder of client.call, run on its own.
  responseBody,          \* the text of response.body
  delivered,             \* how much of it the transport has delivered, in atoms
  buffer,                \* let buffer
  yielded,               \* the values the generator has yielded, in order
  returned,              \* the generator has finished
  \* sanitizeJson, run on its own on a graph of objects and arrays.
  heap,                  \* the objects and arrays: node -> [kind, kids]
  stack,                 \* the calls of sanitizeJson in progress, innermost last
  seen,                  \* the WeakSet seen
  expanded,              \* the nodes whose entries were walked, in order
  steps,                 \* the number of steps taken
  result,                \* what the outermost call returned (Pending before)
  \* Two requests handled at once.
  cells,                 \* the state variables of each invocation of the handler
  reqPc,                 \* position of each handler: entered, streaming, done
  reqConsumed,           \* the chunks each completion has yielded
  reqEvents              \* the SSE events written to each response

handler == <<pc, body, data, upstream, consumed, events, headersSent, ended, jsonResponses,
             completion, currentContentBlocks, toolUseJson, isToolUse, hasStartedTextBlock,
             contentBlockIndex>>

decoder == <<responseBody, delivered, buffer, yielded, returned>>

sanitizer == <<heap, stack, seen, expanded, steps, result>>

requests == <<cells, reqPc, reqConsumed, reqEvents>>

\* What one run of the /v1/messages handler leaves alone.
apart == <<decoder, sanitizer, requests>>

vars == <<handler, decoder, sanitizer, requests>>

session == <<completion, currentContentBlocks, toolUseJson, isToolUse, hasStartedTextBlock,
             contentBlockIndex>>

response == <<events, headersSent, ended, jsonResponses>>

----------------------------------------------------------------------------
(* Bounds *)

\* Largest number of chunks one upstream stream yields.
MaxChunks == 3

----------------------------------------------------------------------------
(* JavaScript values *)

JUndef == [t |-> "undefined"]
JNull == [t |-> "null"]
JStr(s) == [t |-> "string", s |-> s]
JNum(n) == [t |-> "number", n |-> n]
JArr(a) == [t |-> "array", a |-> a]
JObj(o) == [t |-> "object", o |-> o]

\* {} : an object without own properties.
EmptyObject == JObj(<< >>)

\* Array.isArray(x)
IsArray(x) == x.t = "array"

\* x is null or undefined: reading a property of x throws a TypeError.
IsNullish(x) == x.t \in {"undefined", "null"}

\* x.k for a non-nullish x (undefined when x has no such property).
Get(x, k) == IF x.t = "object" /\ k \in DOMAIN x.o THEN x.o[k] ELSE JUndef

\* JavaScript truthiness.
Truthy(x) ==
  CASE x.t \in {"undefined", "null"} -> FALSE
    [] x.t = "string" -> x.s # << >>
    [] x.t = "number" -> x.n # 0
    [] OTHER -> TRUE

\* { ...block, k: v }
With(block, k, v) == [f \in DOMAIN block \cup {k} |-> IF f = k THEN v ELSE block[f]]

----------------------------------------------------------------------------
(* JSON text.  Tokens: "{", "}", a key with its colon, a string literal, a  *)
(* number literal.  The values that occur are scalars and objects of at     *)
(* most one member.                                                         *)

JsonKeys == {"q", "x"}
KeyToken(k) == IF k = "q" THEN "\"q\":" ELSE "\"x\":"
TokenKey(tok) == IF tok = "\"q\":" THEN "q" ELSE "x"
IsKeyToken(tok) == tok \in {KeyToken(k) : k \in JsonKeys}
StrToken == "\"x\""
EmptyStrToken == "\"\""
NumToken == "1"

RECURSIVE ParseValue(_, _)
\* The JSON value that starts at position i of the token string s, and the
\* position after it; ok = FALSE when no value starts there.
ParseValue(s, i) ==
  IF i > Len(s) THEN [ok |-> FALSE, v |-> JUndef, next |-> i]
  ELSE IF s[i] = StrToken THEN [ok |-> TRUE, v |-> JStr(<<"x">>), next |-> i + 1]
  ELSE IF s[i] = EmptyStrToken THEN [ok |-> TRUE, v |-> JStr(<< >>), next |-> i + 1]
  ELSE IF s[i] = NumToken THEN [ok |-> TRUE, v |-> JNum(1), next |-> i + 1]
  ELSE IF s[i] = "{" THEN
    IF i + 1 <= Len(s) /\ s[i + 1] = "}"
    THEN [ok |-> TRUE, v |-> EmptyObject, next |-> i + 2]
    ELSE IF i + 1 <= Len(s) /\ IsKeyToken(s[i + 1]) THEN
      LET m == ParseValue(s, i + 2) IN
        IF m.ok /\ m.next <= Len(s) /\ s[m.next] = "}"
        THEN [ok |-> TRUE, v |-> JObj(TokenKey(s[i + 1]) :> m.v), next |-> m.next + 1]
        ELSE [ok |-> FALSE, v |-> JUndef, next |-> i]
    ELSE [ok |-> FALSE, v |-> JUndef, next |-> i]
  ELSE [ok |-> FALSE, v |-> JUndef, next |-> i]

\* JSON.parse(s): ok = FALSE stands for the SyntaxError it throws.
JSONParse(s) ==
  LET r == ParseValue(s, 1) IN
    IF r.ok /\ r.next = Len(s) + 1 THEN [ok |-> TRUE, v |-> r.v]
    ELSE [ok |-> FALSE, v |-> JUndef]

RECURSIVE JSONStringify(_)
\* JSON.stringify(v) for the JSON values above.
JSONStringify(v) ==
  CASE v.t = "string" -> IF v.s = << >> THEN <<EmptyStrToken>> ELSE <<StrToken>>
    [] v.t = "number" -> <<NumToken>>
    [] v.t = "object" ->
         IF DOMAIN v.o = {} THEN <<"{", "}">>
         ELSE LET k == CHOOSE key \in DOMAIN v.o : TRUE IN
                <<"{", KeyToken(k)>> \o JSONStringify(v.o[k]) \o <<"}">>
    [] OTHER -> <<"null">>


----------------------------------------------------------------------------
(* The upstream chunk stream *)

\* delta.tool_calls entries: function.name (undefined on continuation
\* chunks) and function.arguments (a fragment of JSON text, maybe empty).
ToolCall(name, arguments) == [name |-> name, arguments |-> arguments]

ToolNames == {JStr(<<"lookup">>), JUndef}

\* Fragments of tool-call arguments: {"q":   "x"}   {}   none
ArgFragments == {<<"{", "\"q\":">>, <<StrToken, "}">>, <<"{", "}">>, << >>}

TextFragments == {<<"Hi">>, <<" there">>}

\* A chunk with choices[0].delta = d.
ChunkOf(d) == [choices |-> <<[delta |-> d]>>]

\* The chunks the upstream may yield: one without choices, one whose delta
\* has neither content nor tool_calls, text deltas, tool-call deltas, a
\* delta with two tool_calls entries, and one with tool_calls and content.
Chunks ==
  {[choices |-> << >>]}
    \cup {ChunkOf([content |-> << >>, tool_calls |-> << >>])}
    \cup {ChunkOf([content |-> c, tool_calls |-> << >>]) : c \in TextFragments}
    \cup {ChunkOf([content |-> << >>, tool_calls |-> <<ToolCall(n, a)>>]) :
            n \in ToolNames, a \in ArgFragments}
    \cup {ChunkOf([content |-> << >>,
                   tool_calls |-> <<ToolCall(JStr(<<"lookup">>), <<"{", "\"q\":">>),
                                    ToolCall(JStr(<<"other">>), <<"{", "}">>)>>])}
    \cup {ChunkOf([content |-> <<"Hi">>,
                   tool_calls |-> <<ToolCall(JUndef, <<StrToken, "}">>)>>])}

\* Lines 334-342: the delta of a chunk, when it has one.
HasDelta(chunk) == Len(chunk.choices) > 0
DeltaOf(chunk) == chunk.choices[1].delta

----------------------------------------------------------------------------
(* SSE events (the payload of each res.write).  The generated ids          *)
(* (msg_<time>, toolu_<time>) and the constant usage numbers are left out. *)

MessageStart(model) == [type |-> "message_start", model |-> model]
ContentBlockStart(index, block) ==
  [type |-> "content_block_start", index |-> index, content_block |-> block]
TextDelta(index, text) ==
  [type |-> "content_block_delta", index |-> index,
   delta |-> [type |-> "text_delta", text |-> text]]
InputJsonDelta(index, fragment) ==
  [type |-> "content_block_delta", index |-> index,
   delta |-> [type |-> "input_json_delta", partial_json |-> fragment]]
ContentBlockStop(index) == [type |-> "content_block_stop", index |-> index]
MessageDelta(toolUse, blocks) ==
  [type |-> "message_delta",
   stop_reason |-> IF toolUse THEN "tool_use" ELSE "end_turn",
   content |-> blocks]
MessageStop == [type |-> "message_stop"]

\* The entries pushed on currentContentBlocks.
ToolUseBlock(name) == [type |-> "tool_use", name |-> name, input |-> EmptyObject]
TextBlock == [type |-> "text", text |-> << >>]

\* block.text + s : an absent text property stringifies as "undefined".
TextPlus(block, s) ==
  (IF "text" \in DOMAIN block THEN block.text ELSE <<"undefined">>) \o s

\* Lines 389-391: currentContentBlocks.map((block, idx) =>
\*   idx === contentBlockIndex ? { ...block, input: parsedJson } : block)
\* (idx counts from 0, the sequence from 1).
UpdateInput(blocks, index, parsedJson) ==
  [i \in 1..Len(blocks) |->
     IF i - 1 = index THEN With(blocks[i], "input", parsedJson) ELSE blocks[i]]

\* Lines 447-449: currentContentBlocks.map((block, idx) =>
\*   idx === contentBlockIndex ? { ...block, text: block.text + delta.content } : block)
UpdateText(blocks, index, content) ==
  [i \in 1..Len(blocks) |->
     IF i - 1 = index THEN With(blocks[i], "text", TextPlus(blocks[i], content))
     ELSE blocks[i]]

----------------------------------------------------------------------------
(* Request normalisation (lines 113-274).  An operator that can throw      *)
(* returns [ok, v]: ok = FALSE stands for the TypeError.                   *)

Ok(v) == [ok |-> TRUE, v |-> v]
Thrown == [ok |-> FALSE, v |-> JUndef]

\* typeof x === 'object'
TypeofObject(x) == x.t \in {"object", "array", "null"}

\* a || b
OrElse(a, b) == IF Truthy(a) THEN a ELSE b

\* delete obj[k]
Delete(o, k) == [f \in DOMAIN o \ {k} |-> o[f]]

\* s.startsWith(prefix), prefix being one atom.
StartsWith(s, prefix) == Len(s) > 0 /\ s[1] = prefix

RECURSIVE JsonClone(_)
\* JSON.parse(JSON.stringify(v)): properties whose value is undefined are
\* dropped, undefined array elements become null.
JsonClone(v) ==
  CASE v.t = "array" ->
         JArr([i \in 1..Len(v.a) |->
                 IF v.a[i].t = "undefined" THEN JNull ELSE JsonClone(v.a[i])])
    [] v.t = "object" ->
         JObj([k \in {f \in DOMAIN v.o : v.o[f].t # "undefined"} |-> JsonClone(v.o[k])])
    [] OTHER -> v

\* Lines 137-158: the URL of an image item.
ImageUrl(it) ==
  LET source == Get(it, "source") IN
    IF Get(it, "type") = JStr(<<"image">>) /\ Truthy(source) THEN
      IF Get(source, "type") = JStr(<<"base64">>) /\ Truthy(Get(source, "data"))
      THEN JStr(<<"data:">> \o OrElse(Get(source, "media_type"), JStr(<<"image/png">>)).s
                  \o <<";base64,">> \o Get(source, "data").s)
      ELSE IF Truthy(Get(source, "data")) THEN Get(source, "data")
      ELSE JStr(<< >>)
    ELSE IF Truthy(Get(Get(it, "image_url"), "url")) THEN Get(Get(it, "image_url"), "url")
    ELSE IF Truthy(Get(it, "url")) THEN Get(it, "url")
    ELSE JStr(<< >>)

TextItem(text) == JObj([type |-> JStr(<<"text">>), text |-> JStr(text)])

\* { type: 'image_url', image_url: { url: imageUrl, detail: 'auto' } }
ImageUrlItem(imageUrl) ==
  JObj([type |-> JStr(<<"image_url">>),
        image_url |-> JObj([url |-> JStr(imageUrl), detail |-> JStr(<<"auto">>)])])

\* The image rules with http as the only scheme passed on.
ImageItemHttpOnly(imageUrl) ==
  IF imageUrl = << >> THEN TextItem(<<"[image not found]">>)
  ELSE IF StartsWith(imageUrl, "file://") THEN TextItem(<<"[local image]">>)
  ELSE IF StartsWith(imageUrl, "http") THEN ImageUrlItem(imageUrl)
  ELSE TextItem(<<"[unsupported image]">>)

\* Lines 162-198: the item that stands for an image of the given URL.
ImageItem(imageUrl) ==
  IF imageUrl = << >> THEN TextItem(<<"[image not found]">>)
  ELSE IF StartsWith(imageUrl, "file://") THEN TextItem(<<"[local image]">>)
  ELSE IF StartsWith(imageUrl, "data:") \/ StartsWith(imageUrl, "http")
  THEN ImageUrlItem(imageUrl)
  ELSE TextItem(<<"[unsupported image]">>)

\* The text of an item whose content is serialized whenever it is there.
ItemTextOfPresentContent(it) ==
  IF Get(it, "content") # JUndef
  THEN JStr(JSONStringify(Get(it, "content")))
  ELSE OrElse(Get(it, "text"), JStr(<< >>))

\* Line 204: it?.content ? JSON.stringify(it.content) : it?.text || ''
ItemText(it) ==
  IF Truthy(Get(it, "content"))
  THEN JStr(JSONStringify(Get(it, "content")))
  ELSE OrElse(Get(it, "text"), JStr(<< >>))

\* Lines 130-208: one item of an array-valued message content (it is an
\* object or null).
MapContentItem(it) ==
  IF Get(it, "type") \in {JStr(<<"image_url">>), JStr(<<"image">>)}
  THEN ImageItem(ImageUrl(it).s)
  ELSE
    LET spread == IF it.t = "object" THEN it.o ELSE << >>
    IN JObj(Delete(With(With(spread, "type", JStr(<<"text">>)), "text", ItemText(it)),
                   "content"))

\* Lines 126-215: messages.map(item => ...); reading item.content of a
\* null or undefined item throws.
MapMessages(messages) ==
  IF \E i \in 1..Len(messages) : IsNullish(messages[i]) THEN Thrown
  ELSE Ok([i \in 1..Len(messages) |->
             LET item == messages[i]
                 content == Get(item, "content")
             IN IF IsArray(content)
                THEN [role |-> Get(item, "role"),
                      content |-> JArr([j \in 1..Len(content.a) |->
                                          MapContentItem(content.a[j])])]
                ELSE [role |-> Get(item, "role"), content |-> content]])

\* Lines 217-222: safeSystem.
SafeSystem(system) ==
  IF \E i \in 1..Len(system) : IsNullish(system[i]) THEN Thrown
  ELSE Ok([i \in 1..Len(system) |->
             [role |-> JStr(<<"system">>), content |-> Get(system[i], "text")]])

\* Lines 223-231: safeMessages.
SafeMessages(messages) ==
  [i \in 1..Len(messages) |->
     [role |-> messages[i].role,
      content |-> IF TypeofObject(messages[i].content)
                  THEN JsonClone(messages[i].content)
                  ELSE messages[i].content]]

----------------------------------------------------------------------------
(* Tools (lines 233-266) and sanitizeJson (utils.mjs, kept in              *)
(* src/eslint.config.js lines 33-90).                                      *)

\* .slice(0, 64): at most this many tools, and this many characters of a name.
ToolLimit == 64
NameLimit == 64

Letters ==
  {"a", "b", "c", "d", "e", "f", "g", "h", "i", "j", "k", "l", "m",
   "n", "o", "p", "q", "r", "s", "t", "u", "v", "w", "x", "y", "z",
   "A", "B", "C", "D", "E", "F", "G", "H", "I", "J", "K", "L", "M",
   "N", "O", "P", "Q", "R", "S", "T", "U", "V", "W", "X", "Y", "Z"}
Digits == {"0", "1", "2", "3", "4", "5", "6", "7", "8", "9"}

\* [a-zA-Z0-9_.-] and [a-zA-Z_]
NameChars == Letters \cup Digits \cup {"_", ".", "-"}
NameStartChars == Letters \cup {"_"}

\* Tool names are strings of one-character atoms.
StickerRequest == <<"S", "t", "i", "c", "k", "e", "r", "R", "e", "q", "u", "e", "s", "t">>
UnusedFunction == <<"U", "n", "u", "s", "e", "d", "F", "u", "n", "c", "t", "i", "o", "n">>
DeprecatedTool == <<"D", "e", "p", "r", "e", "c", "a", "t", "e", "d", "T", "o", "o", "l">>
ExcludedNames == {JStr(StickerRequest), JStr(UnusedFunction), JStr(DeprecatedTool)}

\* s.slice(0, n)
Slice(s, n) == SubSeq(s, 1, IF Len(s) < n THEN Len(s) ELSE n)

\* .replace(/[^a-zA-Z0-9_.-]/g, '_')
ReplaceDisallowed(name) ==
  [i \in 1..Len(name) |-> IF name[i] \in NameChars THEN name[i] ELSE "_"]

\* .replace(/^[^a-zA-Z_]+/, '_'): the longest leading run of characters
\* outside [a-zA-Z_], when not empty, becomes one underscore.
ReplaceLeading(name) ==
  LET run == CHOOSE n \in 0..Len(name) :
               /\ \A i \in 1..n : name[i] \notin NameStartChars
               /\ n < Len(name) => name[n + 1] \in NameStartChars
  IN IF run = 0 THEN name ELSE <<"_">> \o SubSeq(name, run + 1, Len(name))

\* safeName without the replacement of the leading run.
SafeNameKeepsLeading(name) == Slice(ReplaceDisallowed(name), NameLimit)

\* Lines 253-256: safeName.
SafeName(name) == Slice(ReplaceLeading(ReplaceDisallowed(name)), NameLimit)

\* The strings sanitizeJson takes for stringified objects (the first atom
\* of such a string is the prefix the code tests for).
IsPlaceholder(v) ==
  /\ v.t = "string"
  /\ \/ v.s = <<"[Object]">>
     \/ StartsWith(v.s, "[object")
     \/ StartsWith(v.s, "{ [native code]")

RECURSIVE SanitizeJson(_)
\* sanitizeJson(obj) for a value without shared or cyclic references.
SanitizeJson(obj) ==
  CASE obj.t \in {"null", "undefined", "function", "symbol"} -> JUndef
    [] obj.t = "string" -> IF IsPlaceholder(obj) THEN JUndef ELSE obj
    [] obj.t = "array" ->
         JArr(SelectSeq([i \in 1..Len(obj.a) |-> SanitizeJson(obj.a[i])],
                        LAMBDA item : ~IsNullish(item)))
    [] obj.t = "object" ->
         JObj([k \in {f \in DOMAIN obj.o :
                        /\ obj.o[f].t \notin {"function", "symbol", "undefined", "null"}
                        /\ ~IsNullish(SanitizeJson(obj.o[f]))
                        /\ ~IsPlaceholder(SanitizeJson(obj.o[f]))}
                 |-> SanitizeJson(obj.o[k])])
    [] OTHER -> obj

\* Lines 236-240: the filter of safeTools.
KeepTool(tool) ==
  /\ Truthy(tool)
  /\ TypeofObject(tool)
  /\ Truthy(Get(tool, "name"))
  /\ Get(tool, "name") \notin ExcludedNames

\* Lines 245-251: the parameters of a forwarded tool.
ToolSchema(item) ==
  LET input_schema == Get(item, "input_schema")
      schema == IF Truthy(input_schema) /\ TypeofObject(input_schema)
                THEN SanitizeJson(input_schema)
                ELSE EmptyObject
  IN IF schema.t = "object" THEN JObj(Delete(schema.o, "$schema")) ELSE schema

\* The tools cut to the limit before the filter.
KeptToolsCutFirst(tools) == SelectSeq(Slice(tools, ToolLimit), KeepTool)

\* Lines 234-242: .filter(...).slice(0, 64).
KeptTools(tools) == Slice(SelectSeq(tools, KeepTool), ToolLimit)

\* Lines 233-266: safeTools; item.name.replace throws when name is no string.
SafeTools(tools) ==
  LET kept == KeptTools(tools) IN
    IF \E i \in 1..Len(kept) : Get(kept[i], "name").t # "string" THEN Thrown
    ELSE Ok([i \in 1..Len(kept) |->
               [type |-> "function",
                name |-> SafeName(Get(kept[i], "name").s),
                description |-> Get(kept[i], "description"),
                parameters |-> ToolSchema(kept[i])]])

\* Lines 113-274: the request handed to client.call, or the error thrown on
\* the way (error names the statement that threw).
Normalize(b) ==
  LET field(k) == Get(b, k)
      messages == IF IsArray(field("messages")) THEN field("messages").a ELSE << >>
      tools == IF IsArray(field("tools")) THEN field("tools").a ELSE << >>
      system == IF IsArray(field("system")) THEN field("system").a ELSE << >>
      mapped == MapMessages(messages)
      safeSystem == SafeSystem(system)
      safeTools == SafeTools(tools)
  IN IF ~mapped.ok THEN [ok |-> FALSE, error |-> "TypeError: messages.map"]
     ELSE IF ~safeSystem.ok THEN [ok |-> FALSE, error |-> "TypeError: system.map"]
     ELSE IF ~safeTools.ok THEN [ok |-> FALSE, error |-> "TypeError: item.name.replace"]
     ELSE [ok |-> TRUE,
           v |-> [model |-> field("model"),
                  messages |-> safeSystem.v \o SafeMessages(mapped.v),
                  temperature |-> field("temperature"),
                  stream |-> TRUE,
                  tools |-> safeTools.v]]

----------------------------------------------------------------------------
(* The translation of one chunk (lines 332-454) as a function of the       *)
(* session: blocks = currentContentBlocks, json = toolUseJson,             *)
(* tool = isToolUse, text = hasStartedTextBlock, index = contentBlockIndex,*)
(* out = the events written while handling the chunk.                      *)

Session(blocks, json, tool, text, index, out) ==
  [blocks |-> blocks, json |-> json, tool |-> tool, text |-> text, index |-> index,
   out |-> out]

\* Faulty variant of StartsToolBlock: isToolUse is never consulted, every
\* chunk with tool_calls starts a block.
StartsToolBlockAlways(st) == TRUE

\* Line 346: a tool block is started when none is open.
StartsToolBlock(st) == ~st.tool

\* Faulty variant of StartsTextBlock: hasStartedTextBlock is never consulted,
\* every text delta starts a block.
StartsTextBlockAlways(st) == TRUE

\* Line 415: a text block is started when none was started before.
StartsTextBlock(st) == ~st.text

\* Lines 343-397: delta.tool_calls is not empty.
ToolCallsBranch(st, delta) ==
  LET toolCall == delta.tool_calls[1]
      opening == StartsToolBlock(st)
      blocks1 == IF opening THEN Append(st.blocks, ToolUseBlock(toolCall.name))
                 ELSE st.blocks
      out1 == IF opening
              THEN <<ContentBlockStart(st.index, ToolUseBlock(toolCall.name))>>
              ELSE << >>
      json1 == IF opening THEN << >> ELSE st.json
      hasArguments == toolCall.arguments # << >>
      json2 == IF hasArguments THEN json1 \o toolCall.arguments ELSE json1
      parsedJson == JSONParse(json2)
      blocks2 == IF hasArguments /\ parsedJson.ok
                 THEN UpdateInput(blocks1, st.index, parsedJson.v)
                 ELSE blocks1
      out2 == IF hasArguments
              THEN out1 \o <<InputJsonDelta(st.index, toolCall.arguments)>>
              ELSE out1
  IN Session(blocks2, json2, TRUE, st.text, st.index, out2)

\* Lines 398-453: delta.content is not empty and there are no tool_calls.
ContentBranch(st, delta) ==
  LET closing == st.tool
      out1 == IF closing THEN <<ContentBlockStop(st.index)>> ELSE << >>
      index1 == IF closing THEN st.index + 1 ELSE st.index
      starting == StartsTextBlock(st)
      blocks1 == IF starting THEN Append(st.blocks, TextBlock) ELSE st.blocks
      out2 == IF starting THEN out1 \o <<ContentBlockStart(index1, TextBlock)>> ELSE out1
      blocks2 == IF index1 + 1 <= Len(blocks1)
                 THEN UpdateText(blocks1, index1, delta.content)
                 ELSE blocks1
  IN Session(blocks2, st.json, FALSE, TRUE, index1,
             out2 \o <<TextDelta(index1, delta.content)>>)

\* Lines 332-454: one iteration of the for-await loop.
Translate(st, chunk) ==
  IF ~HasDelta(chunk) THEN st
  ELSE LET delta == DeltaOf(chunk) IN
         IF Len(delta.tool_calls) > 0 THEN ToolCallsBranch(st, delta)
         ELSE IF delta.content # << >> THEN ContentBranch(st, delta)
         ELSE st

----------------------------------------------------------------------------
(* The handler *)

NoData == [none |-> TRUE]

\* Faulty variant of HasImage: the parts are tested for the inbound type
\* image instead of image_url.
HasImageOfTypeImage(messages) ==
  \E i \in 1..Len(messages) :
    /\ IsArray(messages[i].content)
    /\ \E j \in 1..Len(messages[i].content.a) :
         Get(messages[i].content.a[j], "type") = JStr(<<"image">>)

\* Lines 40-42: hasImage, computed by client.call on the messages handed
\* to it.
HasImage(messages) ==
  \E i \in 1..Len(messages) :
    /\ IsArray(messages[i].content)
    /\ \E j \in 1..Len(messages[i].content.a) :
         Get(messages[i].content.a[j], "type") = JStr(<<"image_url">>)

\* Lines 45-56: the headers of the request client.call sends upstream.
Headers(newData) ==
  [h \in {"Content-Type", "Authorization", "HTTP-Referer", "X-Title"}
         \cup (IF HasImage(newData.messages) THEN {"Copilot-Vision-Request"} ELSE {}) |->
     CASE h = "Content-Type" -> "application/json"
       [] h = "Authorization" -> "Bearer OPENAI_API_KEY"
       [] h = "HTTP-Referer" -> "https://claude-code-copilot-router.local"
       [] h = "X-Title" -> "Claude Code Copilot Router"
       [] h = "Copilot-Vision-Request" -> "true"]

\* Line 31: the model client.call sends upstream instead of data.model.
SupportedModel == JStr(<<"google/gemini-2.5-pro-preview">>)

\* Lines 65-69 and the rejection of fetch: what client.call throws.
UpstreamErrors == {"OpenRouter API error: 500", "fetch failed"}
StreamErrors == {"stream aborted"}

\* Faulty variant of MessageStartModel: message_start carries the model of
\* the outbound request (newData.model) instead of the requested one.
MessageStartUpstreamModel == SupportedModel

\* Lines 316-329: the model name message_start carries.
MessageStartModel == Get(body, "model")

\* Faulty variant of CanStillAnswer: the guard of the catch block inverted.
AnswersOnlyAfterHeaders == headersSent

\* Line 496: the catch block answers only when no header was sent.
CanStillAnswer == ~headersSent

\* Lines 497-500: res.status(400).json({status: 'error', message}).
ErrorResponse(error) == [code |-> "400", status |-> "error", message |-> error]

\* Lines 493-502: the catch block of the handler.
Catch(error) ==
  IF CanStillAnswer
  THEN /\ jsonResponses' = Append(jsonResponses, ErrorResponse(error))
       /\ headersSent' = TRUE
       /\ ended' = TRUE
       /\ events' = events
  ELSE UNCHANGED response

\* Lines 119-124 (and 457-462): the state variables' initial values.
ResetSession(c) ==
  /\ completion' = c
  /\ currentContentBlocks' = << >>
  /\ toolUseJson' = << >>
  /\ isToolUse' = FALSE
  /\ hasStartedTextBlock' = FALSE
  /\ contentBlockIndex' = 0

\* Lines 112-304: the request is normalised; a TypeError goes to the catch block.
NormalizeRequest ==
  /\ pc = "received"
  /\ LET n == Normalize(body) IN
       IF n.ok
       THEN /\ data' = n.v
            /\ pc' = "calling"
            /\ UNCHANGED response
       ELSE /\ data' = data
            /\ pc' = "done"
            /\ Catch(n.error)
  /\ ResetSession("undefined")
  /\ UNCHANGED <<body, upstream, consumed>>
  /\ UNCHANGED apart

\* Lines 306, 59-69, 493-502: client.call rejects (network error or non-2xx).
CallFails ==
  /\ pc = "calling"
  /\ \E error \in UpstreamErrors : Catch(error)
  /\ upstream' = "failed"
  /\ pc' = "done"
  /\ UNCHANGED <<body, data, consumed, session>>
  /\ UNCHANGED apart

\* Lines 306-329: client.call resolves; headers and message_start are written.
CallSucceeds ==
  /\ pc = "calling"
  /\ upstream' = "open"
  /\ completion' = "stream"
  /\ events' = Append(events, MessageStart(MessageStartModel))
  /\ headersSent' = TRUE
  /\ pc' = "streaming"
  /\ UNCHANGED <<body, data, consumed, ended, jsonResponses, currentContentBlocks,
                 toolUseJson, isToolUse, hasStartedTextBlock, contentBlockIndex>>
  /\ UNCHANGED apart

\* Lines 332-454: the completion yields a chunk and the loop body runs.
OnChunk ==
  /\ pc = "streaming"
  /\ Len(consumed) < MaxChunks
  /\ \E chunk \in Chunks :
       LET st == Translate(Session(currentContentBlocks, toolUseJson, isToolUse,
                                   hasStartedTextBlock, contentBlockIndex, << >>), chunk)
       IN /\ consumed' = Append(consumed, chunk)
          /\ currentContentBlocks' = st.blocks
          /\ toolUseJson' = st.json
          /\ isToolUse' = st.tool
          /\ hasStartedTextBlock' = st.text
          /\ contentBlockIndex' = st.index
          /\ events' = events \o st.out
  /\ UNCHANGED <<pc, body, data, upstream, headersSent, ended, jsonResponses, completion>>
  /\ UNCHANGED apart

\* Lines 455-492: the completion ends; the finally block runs, then the
\* closing events are written from the state variables and the response ends.
StreamEnd ==
  /\ pc = "streaming"
  /\ upstream' = "closed"
  /\ ResetSession("null")
  /\ events' = events \o <<ContentBlockStop(contentBlockIndex'),
                           MessageDelta(isToolUse', currentContentBlocks'),
                           MessageStop>>
  /\ ended' = TRUE
  /\ pc' = "done"
  /\ UNCHANGED <<body, data, consumed, headersSent, jsonResponses>>
  /\ UNCHANGED apart

\* Lines 332, 455-463, 493-502: the completion throws while it is iterated;
\* the finally block runs and the error reaches the catch block.
StreamError ==
  /\ pc = "streaming"
  /\ upstream' = "errored"
  /\ ResetSession("null")
  /\ \E error \in StreamErrors : Catch(error)
  /\ pc' = "done"
  /\ UNCHANGED <<body, data, consumed>>
  /\ UNCHANGED apart

----------------------------------------------------------------------------
(* Specifications *)

UserMessage == JObj([role |-> JStr(<<"user">>), content |-> JStr(<<"hello">>)])

\* The request bodies of Spec: two model names, and one body whose
\* messages hold a null entry.
Bodies ==
  {JObj([model |-> JStr(<<m>>), messages |-> JArr(<<UserMessage>>)]) :
     m \in {"claude-3-5-sonnet", "claude-3-opus"}}
    \cup {JObj([model |-> JStr(<<"claude-3-opus">>), messages |-> JArr(<<JNull>>)])}

\* No upstream body is being decoded.
IdleDecoder ==
  /\ responseBody = << >>
  /\ delivered = 0
  /\ buffer = << >>
  /\ yielded = << >>
  /\ returned = FALSE

\* sanitizeJson is not running on a graph.
IdleSanitizer ==
  /\ heap = << >>
  /\ stack = << >>
  /\ seen = {}
  /\ expanded = << >>
  /\ steps = 0
  /\ result = JUndef

\* No second request is being handled.
IdleRequests ==
  /\ cells = << >>
  /\ reqPc = << >>
  /\ reqConsumed = << >>
  /\ reqEvents = << >>

InitWith(bodies) ==
  /\ IdleDecoder
  /\ IdleSanitizer
  /\ IdleRequests
  /\ pc = "received"
  /\ body \in bodies
  /\ data = NoData
  /\ upstream = "pending"
  /\ consumed = << >>
  /\ events = << >>
  /\ headersSent = FALSE
  /\ ended = FALSE
  /\ jsonResponses = << >>
  /\ completion = "undefined"
  /\ currentContentBlocks = << >>
  /\ toolUseJson = << >>
  /\ isToolUse = FALSE
  /\ hasStartedTextBlock = FALSE
  /\ contentBlockIndex = 0

Init == InitWith(Bodies)

Next ==
  \/ NormalizeRequest
  \/ CallFails
  \/ CallSucceeds
  \/ OnChunk
  \/ StreamEnd
  \/ StreamError

Spec == Init /\ [][Next]_vars

\* The request bodies of SpecNorm: every field absent, null, a scalar, an
\* object, or an array of well-formed and malformed entries.
ToolResultMessage ==
  JObj([role |-> JStr(<<"user">>),
        content |-> JArr(<<JObj([type |-> JStr(<<"tool_result">>),
                                 content |-> JObj("x" :> JNum(1))]),
                           JObj([type |-> JStr(<<"text">>), text |-> JStr(<<"hello">>)])>>)])
NamedTool(name) == JObj([name |-> name, description |-> JStr(<<"a tool">>)])

MessagesFields ==
  {JUndef, JNull, JStr(<<"hello">>), JObj([role |-> JStr(<<"user">>)]),
   JArr(<< >>), JArr(<<UserMessage>>), JArr(<<ToolResultMessage, UserMessage>>),
   JArr(<<UserMessage, JNull>>)}
SystemFields ==
  {JUndef, JNull, JStr(<<"be brief">>), JArr(<<JObj([text |-> JStr(<<"be brief">>)])>>),
   JArr(<<JNull>>)}
ToolsFields ==
  {JUndef, JNull, NamedTool(JStr(<<"g", "e", "t">>)),
   JArr(<<NamedTool(JStr(<<"g", "e", "t">>))>>),
   JArr(<<JNull, NamedTool(JStr(StickerRequest)), NamedTool(JStr(<<"2", " ", "b">>))>>),
   JArr(<<NamedTool(JNum(5))>>)}

\* A body with the given fields; a field that is undefined is absent.
BodyOf(fields) == JObj([k \in {f \in DOMAIN fields : fields[f] # JUndef} |-> fields[k]])

NormBodies ==
  {BodyOf([model |-> JStr(<<"claude-3-opus">>), messages |-> m, system |-> s, tools |-> t]) :
     m \in MessagesFields, s \in SystemFields, t \in ToolsFields}

InitNorm == InitWith(NormBodies)

\* The handler up to the answer of client.call.
NextNorm ==
  \/ NormalizeRequest
  \/ CallFails
  \/ CallSucceeds

SpecNorm == InitNorm /\ [][NextNorm]_vars

----------------------------------------------------------------------------
(* Vocabulary of the properties *)

BlockEventTypes == {"content_block_start", "content_block_delta", "content_block_stop"}

\* Positions of the events of the given types.
Positions(evs, types) == {i \in 1..Len(evs) : evs[i].type \in types}

Largest(S) == CHOOSE n \in S : \A m \in S : m <= n

\* The upstream call succeeded (the completion was obtained).
CallSucceeded == upstream \in {"open", "closed", "errored"}

\* The chunk sequence ended cleanly and the handler returned.
EndedCleanly == pc = "done" /\ upstream = "closed"

\* The events written before the three closing events of a clean end.
Body3 == SubSeq(events, 1, Len(events) - 3)

\* Positions of the content_block_start events not followed by a
\* content_block_stop of the same index: the blocks still open.
OpenStarts(evs) ==
  {i \in Positions(evs, {"content_block_start"}) :
     ~\E j \in Positions(evs, {"content_block_stop"}) : j > i /\ evs[j].index = evs[i].index}

\* A chunk that carries non-empty text and no tool_calls.
IsTextChunk(chunk) ==
  /\ HasDelta(chunk)
  /\ DeltaOf(chunk).content # << >>
  /\ DeltaOf(chunk).tool_calls = << >>

----------------------------------------------------------------------------
(* C1 *)

\* C1: in every response whose upstream call succeeded exactly one
\* message_start is written, it is the first event (so it precedes every
\* content-block event), and it carries the model name of the inbound
\* request; no response holds more than one message_start.
C1_OneMessageStartFirst ==
  LET starts == Positions(events, {"message_start"}) IN
    /\ Cardinality(starts) <= 1
    /\ \A i \in Positions(events, BlockEventTypes) : \E j \in starts : j < i
    /\ CallSucceeded =>
         /\ starts = {1}
         /\ events[1].model = Get(body, "model")

\* A stream that ended cleanly after content-block events, for a request
\* whose model is not the one sent upstream.
C1_Witness ==
  /\ EndedCleanly
  /\ Positions(events, {"content_block_delta"}) # {}
  /\ Get(body, "model") = JStr(<<"claude-3-opus">>)
  /\ events[1].type = "message_start"

----------------------------------------------------------------------------
(* C2 *)

\* C2: when the chunk sequence ends cleanly the stream ends with
\* content_block_stop, message_delta, message_stop, in this order and with
\* nothing after message_stop, and the content_block_stop carries the index
\* of the block that is open at the end (0 when no block was opened).
C2_ClosingEventsCloseOpenBlock ==
  EndedCleanly =>
    /\ Len(events) >= 4
    /\ events[Len(events) - 2].type = "content_block_stop"
    /\ events[Len(events) - 1].type = "message_delta"
    /\ events[Len(events)].type = "message_stop"
    /\ Positions(Body3, {"message_stop"}) = {}
    /\ LET open == OpenStarts(Body3) IN
         events[Len(events) - 2].index = IF open = {} THEN 0 ELSE Body3[Largest(open)].index

----------------------------------------------------------------------------
(* C3 *)

\* C3: after a clean end the stop_reason of message_delta is tool_use
\* exactly when the most recently opened block is a tool_use block that is
\* still open, and end_turn otherwise.
C3_StopReasonTellsOpenToolBlock ==
  EndedCleanly =>
    LET starts == Positions(Body3, {"content_block_start"})
        toolOpen == /\ starts # {}
                    /\ Largest(starts) \in OpenStarts(Body3)
                    /\ Body3[Largest(starts)].content_block.type = "tool_use"
    IN events[Len(events) - 1].stop_reason = IF toolOpen THEN "tool_use" ELSE "end_turn"

----------------------------------------------------------------------------
(* C4 *)

\* The position of the k-th content_block_start of evs.
NthStart(evs, k) ==
  CHOOSE p \in Positions(evs, {"content_block_start"}) :
    Cardinality({q \in Positions(evs, {"content_block_start"}) : q <= p}) = k

RECURSIVE Fragments(_, _, _)
\* The fragments of the deltas of the given type from position i of evs up
\* to the next content_block_start or content_block_stop, concatenated.
Fragments(evs, i, deltaType) ==
  IF i > Len(evs) \/ evs[i].type \in {"content_block_start", "content_block_stop"}
  THEN << >>
  ELSE (IF evs[i].type = "content_block_delta" /\ evs[i].delta.type = deltaType
        THEN IF deltaType = "text_delta" THEN evs[i].delta.text
             ELSE evs[i].delta.partial_json
        ELSE << >>) \o Fragments(evs, i + 1, deltaType)

\* C4: after a clean end message_delta.content lists every started block in
\* the order of the starts: a tool_use block whose fragments concatenate to
\* valid JSON with input equal to the parsed value, a text block with text
\* equal to the concatenation of its text fragments.
C4_ContentListsStartedBlocks ==
  EndedCleanly =>
    LET content == events[Len(events) - 1].content
        n == Cardinality(Positions(Body3, {"content_block_start"}))
    IN /\ Len(content) = n
       /\ \A k \in 1..n :
            LET p == NthStart(Body3, k)
                kind == Body3[p].content_block.type
                json == JSONParse(Fragments(Body3, p + 1, "input_json_delta"))
            IN /\ content[k].type = kind
               /\ (kind = "tool_use" /\ json.ok) => content[k].input = json.v
               /\ kind = "text" => content[k].text = Fragments(Body3, p + 1, "text_delta")

----------------------------------------------------------------------------
(* C5 *)

\* C5: the indices of the content-block events of a session never decrease,
\* the first is 0, and an index exceeds the previous one only by one and
\* only at a content_block_start that immediately follows a content_block_stop.
C5_IndicesMonotone ==
  LET blockEvents == Positions(events, BlockEventTypes) IN
    \A i \in blockEvents :
      LET earlier == {j \in blockEvents : j < i} IN
        IF earlier = {} THEN events[i].index = 0
        ELSE LET prev == Largest(earlier) IN
               /\ events[i].index >= events[prev].index
               /\ events[i].index > events[prev].index =>
                    /\ events[i].index = events[prev].index + 1
                    /\ events[prev].type = "content_block_stop"
                    /\ events[i].type = "content_block_start"
                    /\ i = prev + 1

----------------------------------------------------------------------------
(* C6 *)

\* C6: at most one block is open at any time; every content_block_start
\* carries an index greater than every earlier one, the first 0; an index
\* that received content_block_stop gets no later start or delta.
C6_OneOpenBlockNeverReopened ==
  LET starts == Positions(events, {"content_block_start"})
      stops == Positions(events, {"content_block_stop"})
  IN /\ Cardinality(OpenStarts(events)) <= 1
     /\ \A i \in starts :
          /\ (\A j \in starts : j >= i) => events[i].index = 0
          /\ \A j \in starts : j < i => events[j].index < events[i].index
     /\ \A i \in stops :
          \A j \in Positions(events, {"content_block_start", "content_block_delta"}) :
            j > i => events[j].index # events[i].index

----------------------------------------------------------------------------
(* C7 *)

\* C7: for n >= 1 chunks that all carry non-empty text and no tool_calls,
\* followed by a clean end, the events are exactly message_start,
\* content_block_start (index 0, text, empty), one text_delta per chunk at
\* index 0 with the chunk's text in arrival order, content_block_stop
\* (index 0), message_delta with stop_reason end_turn, message_stop.
C7_TextOnlyStream ==
  (/\ EndedCleanly
   /\ Len(consumed) >= 1
   /\ \A i \in 1..Len(consumed) : IsTextChunk(consumed[i]))
  => LET n == Len(consumed) IN
       /\ Len(events) = n + 5
       /\ events[1].type = "message_start"
       /\ events[2] = [type |-> "content_block_start", index |-> 0,
                       content_block |-> [type |-> "text", text |-> << >>]]
       /\ \A i \in 1..n :
            events[2 + i] = [type |-> "content_block_delta", index |-> 0,
                             delta |-> [type |-> "text_delta",
                                        text |-> consumed[i].choices[1].delta.content]]
       /\ events[n + 3] = [type |-> "content_block_stop", index |-> 0]
       /\ events[n + 4].type = "message_delta"
       /\ events[n + 4].stop_reason = "end_turn"
       /\ events[n + 5] = [type |-> "message_stop"]

\* The stream "Hi", " there" ended cleanly.
C7_Witness ==
  /\ EndedCleanly
  /\ Len(consumed) = 2
  /\ IsTextChunk(consumed[1]) /\ DeltaOf(consumed[1]).content = <<"Hi">>
  /\ IsTextChunk(consumed[2]) /\ DeltaOf(consumed[2]).content = <<" there">>

----------------------------------------------------------------------------
(* C8 *)

\* C8: when the upstream call fails before streaming begins, the consumer
\* gets exactly one JSON response, with status 400 and the shape
\* {status: "error", message}, the response is ended, and no SSE event is
\* written.
C8_UpstreamFailureIsOneErrorResponse ==
  upstream = "failed" =>
    /\ events = << >>
    /\ Len(jsonResponses) = 1
    /\ jsonResponses[1].code = "400"
    /\ jsonResponses[1].status = "error"
    /\ jsonResponses[1].message \in UpstreamErrors
    /\ ended

\* The upstream answered with a non-2xx status and the handler returned.
C8_Witness ==
  /\ pc = "done"
  /\ upstream = "failed"
  /\ jsonResponses = <<ErrorResponse("OpenRouter API error: 500")>>

----------------------------------------------------------------------------
(* C9 *)

\* C9: when the chunk sequence raises an error after message_start was
\* written, the handler writes no further SSE event, sends no JSON error
\* body, and ends the response.
C9_StreamErrorEndsResponse ==
  [][(pc = "streaming" /\ upstream' = "errored") =>
       (events' = events /\ jsonResponses' = jsonResponses /\ ended')]_vars

----------------------------------------------------------------------------
(* C10 *)

NormalizationErrors ==
  {"TypeError: messages.map", "TypeError: system.map", "TypeError: item.name.replace"}

\* Normalisation threw: the handler answered with one of its TypeErrors.
NormalizationRaised ==
  \E i \in 1..Len(jsonResponses) : jsonResponses[i].message \in NormalizationErrors

\* C10: for every body whose messages field is absent, null or no array,
\* normalisation raises no error and the request handed to the upstream has
\* no non-system message; a non-array system yields no system message and a
\* non-array tools yields no forwarded tool.
C10_NonArrayFieldsNormalize ==
  pc # "received" =>
    /\ ~IsArray(Get(body, "messages")) =>
         /\ ~NormalizationRaised
         /\ data # NoData
         /\ \A i \in 1..Len(data.messages) : data.messages[i].role = JStr(<<"system">>)
    /\ (~IsArray(Get(body, "system")) /\ data # NoData) =>
         \A i \in 1..Len(data.messages) : data.messages[i].role # JStr(<<"system">>)
    /\ (~IsArray(Get(body, "tools")) /\ data # NoData) => data.tools = << >>

----------------------------------------------------------------------------
(* C11 *)

\* Longest tool name drawn character by character.
MaxNameLen == 3

\* n times the character c.
Repeat(c, n) == [i \in 1..n |-> c]

\* Characters of the drawn names: letters, a digit, the punctuation the
\* pattern allows, and two characters it does not.
NameAlphabet == {"a", "Z", "7", ".", "-", "_", " ", "$"}

ShortNames == UNION {[1..n -> NameAlphabet] : n \in 1..MaxNameLen}

\* Names about as long as the limit, some behind a run of digits and dots.
LongNames ==
  {lead \o Repeat(c, n) :
     lead \in {<< >>, <<"7">>, <<"7", ".">>},
     c \in {"a", "7", "$"},
     n \in (NameLimit - 1)..(NameLimit + 2)}

\* The request bodies of SpecNames: one tool of each name.
NameBodies ==
  {JObj([model |-> JStr(<<"claude-3-opus">>),
         messages |-> JArr(<<UserMessage>>),
         tools |-> JArr(<<NamedTool(JStr(name))>>)]) :
     name \in ShortNames \cup LongNames}

InitNames == InitWith(NameBodies)

SpecNames == InitNames /\ [][NextNorm]_vars

\* The original name of the one tool of the body.
OriginalName == Get(Get(body, "tools").a[1], "name").s

\* C11: the name of every forwarded tool matches
\* ^[A-Za-z_][A-Za-z0-9_.-]{0,63}$, whatever characters the original
\* non-empty name held and however it began.
C11_SafeNamesMatchPattern ==
  data # NoData =>
    \A i \in 1..Len(data.tools) :
      LET name == data.tools[i].name IN
        /\ Len(name) \in 1..64
        /\ name[1] \in Letters \cup {"_"}
        /\ \A j \in 1..Len(name) : name[j] \in Letters \cup Digits \cup {"_", ".", "-"}

\* A name longer than the limit that begins with a digit and a dot is
\* forwarded as 64 characters behind one underscore.
C11_Witness ==
  /\ data # NoData
  /\ Len(data.tools) = 1
  /\ Len(OriginalName) > 64
  /\ OriginalName[1] = "7"
  /\ OriginalName[2] = "."
  /\ OriginalName[3] = "$"
  /\ Len(data.tools[1].name) = 64
  /\ data.tools[1].name[1] = "_"
  /\ data.tools[1].name[2] = "_"

----------------------------------------------------------------------------
(* C12 *)

\* Longest inbound tool list.
MaxTools == 66

DigitChars == <<"0", "1", "2", "3", "4", "5", "6", "7", "8", "9">>

\* The name of the i-th inbound tool: t00, t01, ...
ToolId(i) == <<"t", DigitChars[(i \div 10) + 1], DigitChars[(i % 10) + 1]>>

\* The i-th inbound tool; its description repeats its name.
IdTool(i) == JObj([name |-> JStr(ToolId(i)), description |-> JStr(ToolId(i))])

JunkKinds ==
  {"null", "string", "nameless", "empty name", "sticker", "unused", "deprecated"}

\* An entry the filter drops, at place i of the list.
JunkEntry(kind, i) ==
  CASE kind = "null" -> JNull
    [] kind = "string" -> JStr(ToolId(i))
    [] kind = "nameless" -> JObj([description |-> JStr(ToolId(i))])
    [] kind = "empty name" -> JObj([name |-> JStr(<< >>), description |-> JStr(ToolId(i))])
    [] kind = "sticker" -> JObj([name |-> JStr(StickerRequest), description |-> JStr(ToolId(i))])
    [] kind = "unused" -> JObj([name |-> JStr(UnusedFunction), description |-> JStr(ToolId(i))])
    [] kind = "deprecated" -> JObj([name |-> JStr(DeprecatedTool), description |-> JStr(ToolId(i))])

\* n inbound entries, those at the places junkAt being of the given kind.
ToolList(n, junkAt, kind) ==
  [i \in 1..n |-> IF i \in junkAt THEN JunkEntry(kind, i) ELSE IdTool(i)]

\* Lists of a few entries and lists about as long as the limit, with
\* dropped entries at the head and at the limit.
ToolLists ==
  {ToolList(n, junkAt, kind) :
     n \in (0..3) \cup ((ToolLimit - 1)..MaxTools),
     junkAt \in SUBSET {1, 2, ToolLimit},
     kind \in JunkKinds}

ToolBodies ==
  {JObj([model |-> JStr(<<"claude-3-opus">>),
         messages |-> JArr(<<UserMessage>>),
         tools |-> JArr(list)]) : list \in ToolLists}

InitTools == InitWith(ToolBodies)

SpecTools == InitTools /\ [][NextNorm]_vars

\* The inbound tool entries.
Inbound == Get(body, "tools").a

\* An entry that is an object, has a name, and is not on the exclusion list.
Survives(tool) ==
  /\ tool.t = "object"
  /\ "name" \in DOMAIN tool.o
  /\ tool.o.name # JStr(<< >>)
  /\ tool.o.name \notin {JStr(StickerRequest), JStr(UnusedFunction), JStr(DeprecatedTool)}

\* C12: the forwarded tools are the first 64 (or all, when fewer) of the
\* inbound entries that survive the filter, in their original order; the
\* dropped entries do not count toward the 64.
C12_ForwardedToolsAreFirstSurvivors ==
  data # NoData =>
    LET survivors == SelectSeq(Inbound, Survives)
        count == IF Len(survivors) < 64 THEN Len(survivors) ELSE 64
    IN /\ Len(data.tools) = count
       /\ \A i \in 1..count : data.tools[i].description = survivors[i].o.description

\* 66 entries whose first is on the exclusion list: the 64 forwarded tools
\* are the entries 2 to 65.
C12_Witness ==
  /\ data # NoData
  /\ Len(Inbound) = 66
  /\ Inbound[1] = JunkEntry("sticker", 1)
  /\ Inbound[2] = IdTool(2)
  /\ Len(data.tools) = 64
  /\ data.tools[1].description = JStr(ToolId(2))
  /\ data.tools[64].description = JStr(ToolId(65))

----------------------------------------------------------------------------
(* Content items: C14, C15 *)

\* An item with the given fields; a field that is undefined is absent.
ItemOf(fields) == BodyOf(fields)

\* Items that are no images: every type with a content that is absent, an
\* object, a string, or falsy, and a text that is absent, filled or empty.
NonImageItems ==
  {ItemOf([type |-> JStr(<<type>>), content |-> content, text |-> text]) :
     type \in {"tool_result", "tool_use", "text"},
     content \in {JUndef, JObj("x" :> JNum(1)), EmptyObject, JStr(<<"x">>), JStr(<< >>),
                  JNull, JNum(1)},
     text \in {JUndef, JStr(<<"hello">>), JStr(<< >>)}}
    \cup {JNull}
    \cup {JObj([type |-> JStr(<<"tool_use">>), id |-> JStr(<<"toolu_1">>),
                name |-> JStr(<<"lookup">>), input |-> input]) :
            input \in {EmptyObject, JObj("q" :> JStr(<<"x">>))}}

\* URLs: the first atom is the scheme.
Urls ==
  {<<"file://", "/tmp/a.png">>, <<"data:", "image/png", ";base64,", "AAAA">>,
   <<"http", "s://example.com/a.png">>, <<"http", "://example.com/a.png">>,
   <<"ftp://", "example.com/a.png">>, <<"/tmp/a.png">>}

UrlFields == {JUndef} \cup {JStr(u) : u \in Urls}

\* The source objects of image items: base64 sources with and without
\* media type and data, sources whose data is a URL, an empty source.
Sources ==
  {JUndef, EmptyObject}
    \cup {ItemOf([type |-> JStr(<<"base64">>), media_type |-> m, data |-> d]) :
            m \in {JUndef, JStr(<<"image/png">>), JStr(<<"image/jpeg">>)},
            d \in {JUndef, JStr(<<"AAAA">>)}}
    \cup {ItemOf([type |-> JStr(<<"url">>), data |-> d]) : d \in UrlFields}

ImageItems ==
  {ItemOf([type |-> JStr(<<type>>), source |-> source,
           image_url |-> IF u1 = JUndef THEN JUndef ELSE JObj([url |-> u1]),
           url |-> u2]) :
     type \in {"image", "image_url"}, source \in Sources, u1 \in UrlFields, u2 \in UrlFields}

\* The request bodies of SpecContent: one message whose content is an
\* array of one item, or of a text item and one item.
ContentBodies ==
  {JObj([model |-> JStr(<<"claude-3-opus">>),
         messages |-> JArr(<<JObj([role |-> JStr(<<"user">>), content |-> JArr(items)])>>)]) :
     items \in {<<it>> : it \in NonImageItems \cup ImageItems}
               \cup {<<TextItem(<<"hello">>), it>> : it \in NonImageItems}}

InitContent == InitWith(ContentBodies)

SpecContent == InitContent /\ [][NextNorm]_vars

\* The inbound items of the message and the items handed upstream.
InItems == Get(Get(body, "messages").a[1], "content").a
OutItems == data.messages[1].content.a

IsImage(it) == Get(it, "type") \in {JStr(<<"image">>), JStr(<<"image_url">>)}

\* The serialized content of the item when the test holds, else its text
\* field, else the empty string.
ExpectedText(it, hasContent) ==
  IF hasContent THEN JStr(JSONStringify(Get(it, "content")))
  ELSE IF Get(it, "text") # JUndef THEN Get(it, "text")
  ELSE JStr(<< >>)

IsTextPlaceholder(out) ==
  /\ out.t = "object"
  /\ DOMAIN out.o = {"type", "text"}
  /\ out.o.type = JStr(<<"text">>)
  /\ out.o.text.t = "string"

\* C15: an image item of extracted URL u becomes one item by the first rule
\* that matches: u empty, a text placeholder; u of scheme file://, a text
\* placeholder; u beginning with data: or http, an image_url item of url u
\* and detail auto; any other u, a text placeholder.
C15_ImageItemsFollowFirstRule ==
  data # NoData =>
    /\ Len(OutItems) = Len(InItems)
    /\ \A j \in 1..Len(InItems) :
         IsImage(InItems[j]) =>
           LET u == ImageUrl(InItems[j]).s IN
             IF u = << >> THEN IsTextPlaceholder(OutItems[j])
             ELSE IF u[1] = "file://" THEN IsTextPlaceholder(OutItems[j])
             ELSE IF u[1] \in {"data:", "http"}
             THEN OutItems[j] = JObj([type |-> JStr(<<"image_url">>),
                                      image_url |-> JObj([url |-> JStr(u),
                                                          detail |-> JStr(<<"auto">>)])])
             ELSE IsTextPlaceholder(OutItems[j])

\* An image_url item of a data: URL was handed upstream as an image_url
\* item of that URL.
C15_Witness ==
  /\ data # NoData
  /\ Len(InItems) = 1
  /\ InItems[1] = JObj([type |-> JStr(<<"image_url">>),
                        image_url |-> JObj([url |-> JStr(<<"data:", "image/png", ";base64,", "AAAA">>)])])
  /\ Get(Get(OutItems[1], "image_url"), "url") = JStr(<<"data:", "image/png", ";base64,", "AAAA">>)
  /\ Get(Get(OutItems[1], "image_url"), "detail") = JStr(<<"auto">>)

----------------------------------------------------------------------------
(* One step of the translation: C18, C19, C20 *)

\* The step takes one chunk from the completion.
TakesChunk == pc = "streaming" /\ Len(consumed') = Len(consumed) + 1

\* The chunk the step takes, and the events it writes.
Arrived == consumed'[Len(consumed')]
Written == SubSeq(events', Len(events) + 1, Len(events'))

\* The content_block_start of the block opened last and not yet stopped.
LastOpenStart(evs) == evs[Largest(OpenStarts(evs))]

\* A block of the given type is the one open.
BlockOpen(evs, type) ==
  /\ OpenStarts(evs) # {}
  /\ LastOpenStart(evs).content_block.type = type

\* A chunk whose tool_calls are not empty.
IsToolChunk(chunk) == HasDelta(chunk) /\ DeltaOf(chunk).tool_calls # << >>

----------------------------------------------------------------------------
(* C18 *)

\* C18: a chunk with tool_calls that arrives while a text block is open at
\* index i makes the translator write content_block_stop of index i, then
\* content_block_start of a tool_use block of index i + 1 named after the
\* first entry, the JSON buffer being emptied before the fragment of the
\* chunk is appended.
C18_ToolCallClosesOpenTextBlock ==
  [][(TakesChunk /\ IsToolChunk(Arrived) /\ BlockOpen(events, "text")) =>
       LET i == LastOpenStart(events).index
           toolCall == DeltaOf(Arrived).tool_calls[1]
       IN /\ Len(Written) >= 2
          /\ Written[1] = ContentBlockStop(i)
          /\ Written[2] = ContentBlockStart(i + 1, ToolUseBlock(toolCall.name))
          /\ toolUseJson' = toolCall.arguments]_vars

----------------------------------------------------------------------------
(* C19 *)

\* C19: a chunk with text and no tool_calls that arrives while a tool block
\* is open at index i makes the translator write content_block_stop of
\* index i, content_block_start of an empty text block of index i + 1, and
\* the text_delta of index i + 1, also when a text block was opened earlier
\* in the session.
C19_TextClosesOpenToolBlock ==
  [][(TakesChunk /\ IsTextChunk(Arrived) /\ BlockOpen(events, "tool_use")) =>
       LET i == LastOpenStart(events).index IN
         Written = <<ContentBlockStop(i),
                     ContentBlockStart(i + 1, TextBlock),
                     TextDelta(i + 1, DeltaOf(Arrived).content)>>]_vars

----------------------------------------------------------------------------
(* C20 *)

\* The place in the block list of the tool_use block pushed last.
LastToolBlock(blocks) ==
  Largest({p \in 1..Len(blocks) : blocks[p].type = "tool_use"})

\* C20: a chunk whose first tool-call entry carries a non-empty fragment f
\* makes the translator write exactly one input_json_delta, of partial_json
\* f and of the index of the open tool block, and append f to the JSON
\* buffer; afterwards the input recorded for that tool block is the parse
\* of the buffer when it parses and is unchanged otherwise; a failed parse
\* changes nothing else and writes no further event.
C20_FragmentIsWrittenAndRecorded ==
  [][(TakesChunk /\ IsToolChunk(Arrived) /\ DeltaOf(Arrived).tool_calls[1].arguments # << >>) =>
       LET f == DeltaOf(Arrived).tool_calls[1].arguments
           opened == \E k \in 1..Len(Written) : Written[k].type = "content_block_start"
           deltas == {k \in 1..Len(Written) : Written[k].type = "content_block_delta"}
           parsed == JSONParse(toolUseJson')
           before == IF opened THEN EmptyObject
                     ELSE currentContentBlocks[LastToolBlock(currentContentBlocks)].input
       IN /\ BlockOpen(events', "tool_use")
          /\ Cardinality(deltas) = 1
          /\ \A k \in deltas :
               /\ Written[k] = InputJsonDelta(LastOpenStart(events').index, f)
               /\ k = Len(Written)
          /\ toolUseJson' = (IF opened THEN << >> ELSE toolUseJson) \o f
          /\ currentContentBlocks'[LastToolBlock(currentContentBlocks')].input
               = (IF parsed.ok THEN parsed.v ELSE before)
          /\ ~parsed.ok =>
               /\ \A p \in 1..Len(currentContentBlocks) :
                    currentContentBlocks'[p] = currentContentBlocks[p]
               /\ contentBlockIndex' = contentBlockIndex
               /\ hasStartedTextBlock' = hasStartedTextBlock]_vars

----------------------------------------------------------------------------
(* The SSE decoder of client.call (lines 72-98), run on its own.  The text *)
(* of response.body is a sequence of atoms; "\n" is an atom of its own,    *)
(* 'data: ' is the two atoms "da" "ta: " and '[DONE]' the two atoms "[DO"  *)
(* "NE]", so that the transport can cut a chunk inside either.             *)

\* Largest number of lines of one upstream body.
MaxLines == 3

\* The handler is not running.
IdleHandler ==
  /\ pc = "idle"
  /\ body = JUndef
  /\ data = NoData
  /\ upstream = "pending"
  /\ consumed = << >>
  /\ events = << >>
  /\ headersSent = FALSE
  /\ ended = FALSE
  /\ jsonResponses = << >>
  /\ completion = "undefined"
  /\ currentContentBlocks = << >>
  /\ toolUseJson = << >>
  /\ isToolUse = FALSE
  /\ hasStartedTextBlock = FALSE
  /\ contentBlockIndex = 0

DataPrefix == <<"da", "ta: ">>
DoneMark == <<"[DO", "NE]">>

RECURSIVE Split(_)
\* text.split('\n')
Split(text) ==
  IF \E i \in 1..Len(text) : text[i] = "\n"
  THEN LET i == CHOOSE k \in 1..Len(text) :
                  text[k] = "\n" /\ \A j \in 1..(k - 1) : text[j] # "\n"
       IN <<SubSeq(text, 1, i - 1)>> \o Split(SubSeq(text, i + 1, Len(text)))
  ELSE <<text>>

\* Line 80: what lines.pop() leaves in lines.
Lines(pieces) == SubSeq(pieces, 1, Len(pieces) - 1)

\* The remainder thrown away: buffer = ''.
RemainderDropped(pieces) == << >>

\* Line 80: buffer = lines.pop()
Remainder(pieces) == pieces[Len(pieces)]

\* Line 83: line.startsWith('data: ') && line.length > 6
IsData(line) ==
  /\ Len(line) > Len(DataPrefix)
  /\ SubSeq(line, 1, Len(DataPrefix)) = DataPrefix

\* line.slice(6)
Payload(line) == SubSeq(line, Len(DataPrefix) + 1, Len(line))

RECURSIVE DecodeLines(_)
\* Lines 82-94: the values yielded for the lines, and whether the
\* generator returned at a [DONE] line.
DecodeLines(lines) ==
  IF lines = << >> THEN [out |-> << >>, done |-> FALSE]
  ELSE LET line == Head(lines) IN
    IF IsData(line) THEN
      IF Payload(line) = DoneMark THEN [out |-> << >>, done |-> TRUE]
      ELSE LET parsed == JSONParse(Payload(line))
               rest == DecodeLines(Tail(lines))
           IN [out |-> (IF parsed.ok THEN <<parsed.v>> ELSE << >>) \o rest.out,
               done |-> rest.done]
    ELSE DecodeLines(Tail(lines))

\* Lines 77-94: the transport delivers the next n atoms of the body as one
\* chunk; the generator decodes the lines the chunk completes.
ReadChunk ==
  /\ ~returned
  /\ delivered < Len(responseBody)
  /\ \E n \in 1..(Len(responseBody) - delivered) :
       LET chunk == SubSeq(responseBody, delivered + 1, delivered + n)
           pieces == Split(buffer \o chunk)
           decoded == DecodeLines(Lines(pieces))
       IN /\ delivered' = delivered + n
          /\ buffer' = Remainder(pieces)
          /\ yielded' = yielded \o decoded.out
          /\ returned' = decoded.done
  /\ UNCHANGED <<responseBody, handler, sanitizer, requests>>

\* Line 77: response.body ends, and with it the generator.
BodyEnds ==
  /\ ~returned
  /\ delivered = Len(responseBody)
  /\ returned' = TRUE
  /\ UNCHANGED <<responseBody, delivered, buffer, yielded, handler, sanitizer, requests>>

\* The lines an upstream body is made of: data lines whose payload is an
\* object, a number, broken JSON, empty, or [DONE]; a comment, an event
\* line, a blank line.
LineKinds ==
  {DataPrefix \o payload :
     payload \in {<<"{", "}">>, <<NumToken>>, <<"{">>, << >>, DoneMark}}
    \cup {<<": keep-alive">>, <<"event: ", "message">>, << >>}

RECURSIVE Join(_, _)
\* The lines behind one another, each but the last followed by "\n", the
\* last one too when terminated.
Join(ls, terminated) ==
  IF ls = << >> THEN << >>
  ELSE IF Len(ls) = 1 THEN ls[1] \o (IF terminated THEN <<"\n">> ELSE << >>)
  ELSE ls[1] \o <<"\n">> \o Join(Tail(ls), terminated)

SseBodies ==
  {Join(ls, terminated) :
     ls \in UNION {[1..n -> LineKinds] : n \in 0..MaxLines},
     terminated \in BOOLEAN}

InitSse ==
  /\ IdleHandler
  /\ IdleSanitizer
  /\ IdleRequests
  /\ responseBody \in SseBodies
  /\ delivered = 0
  /\ buffer = << >>
  /\ yielded = << >>
  /\ returned = FALSE

NextSse ==
  \/ ReadChunk
  \/ BodyEnds

SpecSse == InitSse /\ [][NextSse]_vars

----------------------------------------------------------------------------
(* C16 *)

\* The k-th smallest member of a set of numbers.
Nth(S, k) == CHOOSE i \in S : Cardinality({j \in S : j <= i}) = k

\* The newline-terminated lines of a text, in order.
TerminatedLines(text) ==
  LET newlines == {i \in 1..Len(text) : text[i] = "\n"} IN
    [k \in 1..Cardinality(newlines) |->
       SubSeq(text, (IF k = 1 THEN 1 ELSE Nth(newlines, k - 1) + 1), Nth(newlines, k) - 1)]

\* A line 'data: ' followed by a payload that is not empty.
HasPayload(line) ==
  /\ Len(line) > 2
  /\ line[1] = "da"
  /\ line[2] = "ta: "

PayloadOf(line) == SubSeq(line, 3, Len(line))

\* The parsed payloads of the newline-terminated data lines of text that
\* come before the first 'data: [DONE]' line and whose payload is JSON.
ExpectedValues(text) ==
  LET lines == TerminatedLines(text)
      dones == {k \in 1..Len(lines) : lines[k] = <<"da", "ta: ", "[DO", "NE]">>}
      before == IF dones = {} THEN lines
                ELSE SubSeq(lines, 1, (CHOOSE k \in dones : \A j \in dones : k <= j) - 1)
      carrying == SelectSeq(before, LAMBDA line :
                              HasPayload(line) /\ JSONParse(PayloadOf(line)).ok)
  IN [k \in 1..Len(carrying) |-> JSONParse(PayloadOf(carrying[k])).v]

\* C16: however the transport cuts the upstream body into chunks, the
\* decoder yields, in order, the parsed payload of each newline-terminated
\* 'data: ' line with a payload that is JSON and that comes before the first
\* 'data: [DONE]' line: a line of broken JSON is skipped without ending the
\* sequence, the [DONE] line ends it and is not yielded.
C16_DecoderYieldsDataLines ==
  LET expected == ExpectedValues(responseBody) IN
    /\ Len(yielded) <= Len(expected)
    /\ yielded = SubSeq(expected, 1, Len(yielded))
    /\ returned => yielded = expected

\* The transport has cut a chunk inside the 'data: ' of the third line,
\* after a line of broken JSON that was skipped and a line that was yielded.
C16_Witness ==
  /\ ~returned
  /\ TerminatedLines(responseBody)
       = <<DataPrefix \o <<"{">>, DataPrefix \o <<"{", "}">>, DataPrefix \o DoneMark>>
  /\ yielded = <<EmptyObject>>
  /\ buffer = <<"da">>

----------------------------------------------------------------------------
(* sanitizeJson (src/eslint.config.js lines 33-90) on a graph of objects   *)
(* and arrays, one step per entry walked.  A node of the heap is an object *)
(* or an array; an entry of it is a number or a reference to a node, so    *)
(* that nodes can be shared and can lie on cycles.  Node 1 is the argument *)
(* of the outermost call.                                                  *)

\* Number of objects and arrays of a graph.
MaxNodes == 2

Nodes == 1..MaxNodes

Ref(n) == [t |-> "ref", n |-> n]

Pending == [t |-> "pending"]

\* The keys of the entries of an object, by place.
KeyNames == <<"a", "b">>

Entries == {JNum(1)} \cup {Ref(n) : n \in Nodes}

NodeShapes ==
  {[kind |-> kind, kids |-> kids] :
     kind \in {"object", "array"},
     kids \in UNION {[1..n -> Entries] : n \in 0..Len(KeyNames)}}

Heaps == [Nodes -> NodeShapes]

\* A call of sanitizeJson on node n that has walked no entry yet.
Frame(n) == [node |-> n, at |-> 1, kept |-> << >>]

\* The call in progress and the entry it is at.
Top == stack[Len(stack)]
AtEntry == Top.at <= Len(heap[Top.node].kids)
Entry == heap[Top.node].kids[Top.at]

\* The innermost call goes on to its next entry, having kept the given
\* values (none or one).
Advance(frames, values) ==
  [frames EXCEPT ![Len(frames)] =
     [@ EXCEPT !.at = @ + 1,
               !.kept = @ \o [i \in 1..Len(values) |-> [place |-> Top.at, v |-> values[i]]]]]

\* .filter(...) of the mapped array, or the object result.
Built(frame) ==
  IF heap[frame.node].kind = "array"
  THEN JArr([i \in 1..Len(frame.kept) |-> frame.kept[i].v])
  ELSE JObj([k \in {KeyNames[frame.kept[i].place] : i \in 1..Len(frame.kept)} |->
               LET i == CHOOSE j \in 1..Len(frame.kept) : KeyNames[frame.kept[j].place] = k
               IN frame.kept[i].v])

\* A WeakSet that never holds anything.
SeenNever(set, n) == FALSE

\* Line 52: seen.has(obj)
SeenBefore(set, n) == n \in set

\* Lines 33, 52-53: the outermost call, on node 1 with a fresh WeakSet.
SanitizeCall ==
  /\ result = Pending
  /\ steps = 0
  /\ seen' = {1}
  /\ expanded' = <<1>>
  /\ stack' = <<Frame(1)>>
  /\ steps' = steps + 1
  /\ UNCHANGED <<heap, result, handler, decoder, requests>>

\* Lines 51, 56-58, 77-78: an entry that is a number is kept.
VisitNumber ==
  /\ stack # << >>
  /\ AtEntry
  /\ Entry.t = "number"
  /\ stack' = Advance(stack, <<Entry>>)
  /\ steps' = steps + 1
  /\ UNCHANGED <<heap, seen, expanded, result, handler, decoder, requests>>

\* Line 52: an entry that refers to a node seen before yields undefined
\* and is left out.
VisitSeen ==
  /\ stack # << >>
  /\ AtEntry
  /\ Entry.t = "ref"
  /\ SeenBefore(seen, Entry.n)
  /\ stack' = Advance(stack, << >>)
  /\ steps' = steps + 1
  /\ UNCHANGED <<heap, seen, expanded, result, handler, decoder, requests>>

\* Lines 52-53: an entry that refers to a node not seen before: the node
\* is added to seen and its entries are walked.
Expand ==
  /\ stack # << >>
  /\ AtEntry
  /\ Entry.t = "ref"
  /\ ~SeenBefore(seen, Entry.n)
  /\ seen' = seen \cup {Entry.n}
  /\ expanded' = Append(expanded, Entry.n)
  /\ stack' = Append(stack, Frame(Entry.n))
  /\ steps' = steps + 1
  /\ UNCHANGED <<heap, result, handler, decoder, requests>>

\* Lines 55-59, 89: every entry of the node is walked; the call returns,
\* and the caller keeps the returned array or object.
Return ==
  /\ stack # << >>
  /\ ~AtEntry
  /\ LET callers == SubSeq(stack, 1, Len(stack) - 1) IN
       IF callers = << >>
       THEN /\ result' = Built(Top)
            /\ stack' = << >>
       ELSE /\ result' = result
            /\ stack' = [callers EXCEPT ![Len(callers)] =
                           [@ EXCEPT !.at = @ + 1,
                                     !.kept = Append(@, [place |-> callers[Len(callers)].at,
                                                         v |-> Built(Top)])]]
  /\ steps' = steps + 1
  /\ UNCHANGED <<heap, seen, expanded, handler, decoder, requests>>

InitSan ==
  /\ IdleHandler
  /\ IdleDecoder
  /\ IdleRequests
  /\ heap \in Heaps
  /\ stack = << >>
  /\ seen = {}
  /\ expanded = << >>
  /\ steps = 0
  /\ result = Pending

NextSan ==
  \/ SanitizeCall
  \/ VisitNumber
  \/ VisitSeen
  \/ Expand
  \/ Return

SpecSan == InitSan /\ [][NextSan]_vars

----------------------------------------------------------------------------
(* C13 *)

RECURSIVE Sum(_, _)
\* The sum of f over the set S.
Sum(f, S) ==
  IF S = {} THEN 0
  ELSE LET x == CHOOSE y \in S : TRUE IN f[x] + Sum(f, S \ {x})

RECURSIVE Composites(_)
\* The number of objects and arrays in a value.
Composites(v) ==
  CASE v.t = "array" -> 1 + Sum([i \in DOMAIN v.a |-> Composites(v.a[i])], DOMAIN v.a)
    [] v.t = "object" -> 1 + Sum([k \in DOMAIN v.o |-> Composites(v.o[k])], DOMAIN v.o)
    [] OTHER -> 0

RECURSIVE ReachableFrom(_)
\* The nodes reachable from the nodes of S.
ReachableFrom(S) ==
  LET next == S \cup {n \in Nodes :
                       \E m \in S : \E i \in 1..Len(heap[m].kids) : heap[m].kids[i] = Ref(n)}
  IN IF next = S THEN S ELSE ReachableFrom(next)

\* C13: on every graph of objects and arrays, cyclic ones included,
\* sanitizeJson ends (it takes no more steps than the graph has nodes and
\* entries, and can always go on until it has returned) and returns a
\* finite tree: every object or array is expanded once, where the walk
\* meets it first, and is left out wherever it is met again.
C13_SanitizeJsonEndsWithATree ==
  /\ \A i, j \in 1..Len(expanded) : expanded[i] = expanded[j] => i = j
  /\ steps <= 1 + Sum([n \in Nodes |-> Len(heap[n].kids) + 1], Nodes)
  /\ (result = Pending /\ steps > 0) => stack # << >>
  /\ result # Pending =>
       /\ stack = << >>
       /\ {expanded[i] : i \in 1..Len(expanded)} = ReachableFrom({1})
       /\ Composites(result) = Cardinality(ReachableFrom({1}))

\* An object whose two entries are the same array, which refers back to
\* the object: the array is kept under the first key only and without the
\* reference back.
C13_Witness ==
  /\ heap[1] = [kind |-> "object", kids |-> <<Ref(2), Ref(2)>>]
  /\ heap[2] = [kind |-> "array", kids |-> <<Ref(1), JNum(1)>>]
  /\ result = JObj("a" :> JArr(<<JNum(1)>>))

----------------------------------------------------------------------------
(* Two requests handled at once.  Node.js runs one loop body at a time: a  *)
(* handler gives way only at an await (client.call, the next chunk of the  *)
(* completion), so a step of a handler is atomic.  Each invocation of the  *)
(* handler declares its own state variables (lines 105-110): cell r holds  *)
(* those of request r.                                                     *)

\* Largest number of chunks of each of the two upstream streams.
MaxConcChunks == 2

Requests == {1, 2}

\* The model each request names.
ReqModel(r) == JStr(<<(<<"claude-3-5-sonnet", "claude-3-opus">>)[r]>>)

\* State variables declared once for all invocations.
SharedCell(r) == 1

\* Lines 105-110: let ... inside the handler: the state variables of the
\* invocation that handles request r.
SessionCell(r) == r

\* Lines 119-124 and 457-462: the state variables' initial values.
FreshSession == Session(<< >>, << >>, FALSE, FALSE, 0, << >>)

\* The chunks of the two streams: text, and the two halves of a tool call.
ConcChunks ==
  {ChunkOf([content |-> c, tool_calls |-> << >>]) : c \in TextFragments}
    \cup {ChunkOf([content |-> << >>,
                   tool_calls |-> <<ToolCall(JStr(<<"lookup">>), <<"{", "\"q\":">>)>>]),
          ChunkOf([content |-> << >>,
                   tool_calls |-> <<ToolCall(JUndef, <<StrToken, "}">>)>>])}

\* Lines 103-124: the handler is invoked for request r and sets its state
\* variables, then awaits client.call.
Enter(r) ==
  /\ reqPc[r] = "received"
  /\ cells' = [cells EXCEPT ![SessionCell(r)] = FreshSession]
  /\ reqPc' = [reqPc EXCEPT ![r] = "calling"]
  /\ UNCHANGED <<reqConsumed, reqEvents, handler, decoder, sanitizer>>

\* Lines 306-329: client.call answers; message_start is written.
Called(r) ==
  /\ reqPc[r] = "calling"
  /\ reqEvents' = [reqEvents EXCEPT ![r] = Append(@, MessageStart(ReqModel(r)))]
  /\ reqPc' = [reqPc EXCEPT ![r] = "streaming"]
  /\ UNCHANGED <<cells, reqConsumed, handler, decoder, sanitizer>>

\* Lines 332-454: the completion of request r yields a chunk and the loop
\* body runs on the state variables of its invocation.
ChunkArrives(r) ==
  /\ reqPc[r] = "streaming"
  /\ Len(reqConsumed[r]) < MaxConcChunks
  /\ \E chunk \in ConcChunks :
       LET st == Translate(cells[SessionCell(r)], chunk) IN
         /\ reqConsumed' = [reqConsumed EXCEPT ![r] = Append(@, chunk)]
         /\ cells' = [cells EXCEPT ![SessionCell(r)] = [st EXCEPT !.out = << >>]]
         /\ reqEvents' = [reqEvents EXCEPT ![r] = @ \o st.out]
  /\ UNCHANGED <<reqPc, handler, decoder, sanitizer>>

\* Lines 455-492: the completion of request r ends; the finally block
\* resets the state variables and the closing events are written from them.
Ends(r) ==
  /\ reqPc[r] = "streaming"
  /\ cells' = [cells EXCEPT ![SessionCell(r)] = FreshSession]
  /\ reqEvents' = [reqEvents EXCEPT ![r] =
                     @ \o <<ContentBlockStop(cells'[SessionCell(r)].index),
                            MessageDelta(cells'[SessionCell(r)].tool,
                                         cells'[SessionCell(r)].blocks),
                            MessageStop>>]
  /\ reqPc' = [reqPc EXCEPT ![r] = "done"]
  /\ UNCHANGED <<reqConsumed, handler, decoder, sanitizer>>

InitConc ==
  /\ IdleHandler
  /\ IdleDecoder
  /\ IdleSanitizer
  /\ cells = [r \in Requests |-> FreshSession]
  /\ reqPc = [r \in Requests |-> "received"]
  /\ reqConsumed = [r \in Requests |-> << >>]
  /\ reqEvents = [r \in Requests |-> << >>]

NextConc ==
  \E r \in Requests :
    \/ Enter(r)
    \/ Called(r)
    \/ ChunkArrives(r)
    \/ Ends(r)

SpecConc == InitConc /\ [][NextConc]_vars

----------------------------------------------------------------------------
(* C17 *)

RECURSIVE Run(_, _)
\* The session after the loop body ran on the chunks one after another,
\* out holding every event written on the way.
Run(st, chunks) ==
  IF chunks = << >> THEN st
  ELSE LET next == Translate([st EXCEPT !.out = << >>], Head(chunks))
       IN Run([next EXCEPT !.out = st.out \o next.out], Tail(chunks))

\* The events a request of the given model, chunks and position writes
\* when it is the only one handled.
AloneEvents(model, chunks, position) ==
  (IF position \in {"streaming", "done"} THEN <<MessageStart(model)>> ELSE << >>)
    \o Run(FreshSession, chunks).out
    \o (IF position = "done"
        THEN <<ContentBlockStop(0), MessageDelta(FALSE, << >>), MessageStop>>
        ELSE << >>)

\* C17: of two requests handled at once, however their chunks interleave,
\* each response holds the events its request writes when handled alone,
\* and the state variables of each session are those its own chunks alone
\* lead to.
C17_SessionsDoNotInterfere ==
  \A r \in Requests :
    /\ reqEvents[r] = AloneEvents(ReqModel(r), reqConsumed[r], reqPc[r])
    /\ reqPc[r] = "streaming" =>
         cells[r] = [Run(FreshSession, reqConsumed[r]) EXCEPT !.out = << >>]

\* Request 1 has a tool block open after a text block while request 2,
\* which took a tool call and then text, has ended.
C17_Witness ==
  /\ reqPc[1] = "streaming"
  /\ reqPc[2] = "done"
  /\ Len(reqConsumed[1]) = 2
  /\ Len(reqConsumed[2]) = 2
  /\ cells[1].tool
  /\ cells[1].text
  /\ IsToolChunk(reqConsumed[2][1])
  /\ IsTextChunk(reqConsumed[2][2])
  /\ Len(reqEvents[1]) = 5

----------------------------------------------------------------------------
(* C21 *)

\* The chunk whose tool_calls hold two entries.
TwoCallsChunk ==
  ChunkOf([content |-> << >>,
           tool_calls |-> <<ToolCall(JStr(<<"lookup">>), <<"{", "\"q\":">>),
                            ToolCall(JStr(<<"other">>), <<"{", "}">>)>>])

\* C21: while a tool block is open, a chunk with tool_calls writes neither
\* content_block_start nor content_block_stop and leaves the block index
\* alone, whatever names its entries carry; only the first entry is read:
\* its fragment, when there is one, is written as the one input_json_delta
\* of the open tool block and appended to the JSON buffer.
C21_OpenToolBlockKeepsAccumulating ==
  [][(TakesChunk /\ IsToolChunk(Arrived) /\ BlockOpen(events, "tool_use")) =>
       LET f == DeltaOf(Arrived).tool_calls[1].arguments IN
         /\ Written = (IF f = << >> THEN << >>
                       ELSE <<InputJsonDelta(LastOpenStart(events).index, f)>>)
         /\ contentBlockIndex' = contentBlockIndex
         /\ toolUseJson' = toolUseJson \o f
         /\ isToolUse']_vars

\* A tool block was opened and the chunk of two entries followed: one
\* content_block_start was written, and the buffer holds the fragments of
\* the first entries only.
C21_Witness ==
  /\ pc = "streaming"
  /\ Len(consumed) = 2
  /\ consumed[1] = ChunkOf([content |-> << >>,
                            tool_calls |-> <<ToolCall(JStr(<<"lookup">>), <<"{", "}">>)>>])
  /\ consumed[2] = TwoCallsChunk
  /\ Cardinality(Positions(events, {"content_block_start"})) = 1
  /\ toolUseJson = <<"{", "}", "{", "\"q\":">>
  /\ contentBlockIndex = 0

----------------------------------------------------------------------------
(* C22 *)

\* C22: for every inbound payload, also when messages, system or tools
\* hold null entries or entries with fields of the wrong type, request
\* normalisation completes without raising, the request is handed to the
\* upstream call, and no error response comes from normalisation.
C22_NormalizationNeverRaises ==
  pc # "received" =>
    /\ data # NoData
    /\ jsonResponses = << >> \/ upstream = "failed"
    /\ \A i \in 1..Len(jsonResponses) : jsonResponses[i].message \notin NormalizationErrors

----------------------------------------------------------------------------
(* C23 *)

\* C23: a tool_use item {id, name, input} of an array-valued content
\* becomes a text item whose text is the JSON serialization of its input,
\* not the empty string.
C23_ToolUseInputIsSerialized ==
  data # NoData =>
    \A j \in 1..Len(InItems) :
      (Get(InItems[j], "type") = JStr(<<"tool_use">>) /\ Get(InItems[j], "input") # JUndef) =>
        /\ Get(OutItems[j], "type") = JStr(<<"text">>)
        /\ Get(OutItems[j], "text") = JStr(JSONStringify(Get(InItems[j], "input")))
        /\ Get(OutItems[j], "text") # JStr(<< >>)

----------------------------------------------------------------------------
(* C24 *)

\* client.call has sent its request upstream.
RequestSent == data # NoData /\ upstream # "pending"

\* The request sent upstream carries Copilot-Vision-Request: true.
VisionHeaderSent ==
  /\ "Copilot-Vision-Request" \in DOMAIN Headers(data)
  /\ Headers(data)["Copilot-Vision-Request"] = "true"

\* C24: the request sent upstream carries the vision header if at least
\* one inbound content item is an image item (type image or image_url), and
\* does not carry it when no inbound item is one.
C24_VisionHeaderIffInboundImage ==
  RequestSent =>
    (VisionHeaderSent <=> \E j \in 1..Len(InItems) : IsImage(InItems[j]))

\* C24, amended: the request carries the vision header exactly when an
\* inbound image item is handed upstream as an image_url item, that is when
\* its extracted URL begins with data: or http; an image item replaced by
\* a text placeholder brings no header.
C24_VisionHeaderIffForwardedImage ==
  RequestSent =>
    (VisionHeaderSent <=>
       \E j \in 1..Len(InItems) :
         /\ IsImage(InItems[j])
         /\ ImageUrl(InItems[j]).s # << >>
         /\ ImageUrl(InItems[j]).s[1] \in {"data:", "http"})

\* An image item of a base64 source was sent upstream with the header.
C24_Witness ==
  /\ RequestSent
  /\ upstream = "open"
  /\ Len(InItems) = 1
  /\ InItems[1] = JObj([type |-> JStr(<<"image">>),
                        source |-> JObj([type |-> JStr(<<"base64">>),
                                         media_type |-> JStr(<<"image/png">>),
                                         data |-> JStr(<<"AAAA">>)])])
  /\ VisionHeaderSent

----------------------------------------------------------------------------
(* C25 *)

\* The URL the source object of an item yields, empty when it yields none:
\* data:<media_type>;base64,<data> for a base64 source with data, the data
\* itself for any other source with data.
SourceUrl(it) ==
  LET source == Get(it, "source")
      hasData == Get(source, "data") \notin {JUndef, JStr(<< >>)}
      mediaType == IF Get(source, "media_type") = JUndef THEN <<"image/png">>
                   ELSE Get(source, "media_type").s
  IN IF ~hasData THEN << >>
     ELSE IF Get(source, "type") = JStr(<<"base64">>)
     THEN <<"data:">> \o mediaType \o <<";base64,">> \o Get(source, "data").s
     ELSE Get(source, "data").s

\* The first URL there is: of the source object, else image_url.url, else
\* url.
FirstUrl(it) ==
  IF SourceUrl(it) # << >> THEN SourceUrl(it)
  ELSE IF Get(Get(it, "image_url"), "url") # JUndef THEN Get(Get(it, "image_url"), "url").s
  ELSE IF Get(it, "url") # JUndef THEN Get(it, "url").s
  ELSE << >>

\* C25: the URL extracted from an image item is the first there is: that of
\* its source object, else its image_url.url, else its url; an item whose
\* source object yields no URL falls through to image_url.url and then to
\* url.
C25_FirstAvailableUrlIsExtracted ==
  data # NoData =>
    \A j \in 1..Len(InItems) :
      IsImage(InItems[j]) =>
        LET u == FirstUrl(InItems[j]) IN
          (u # << >> /\ u[1] \in {"data:", "http"}) =>
            Get(Get(OutItems[j], "image_url"), "url") = JStr(u)

----------------------------------------------------------------------------
(* C26 *)

\* C26: while chunks are processed the block list has one entry for each
\* content_block_start written so far, the entry at position i being the
\* block whose content_block_start carried index i; so text is appended
\* only to text blocks and parsed input is recorded only in tool_use
\* blocks.
C26_BlockListMirrorsStarts ==
  pc = "streaming" =>
    LET n == Cardinality(Positions(events, {"content_block_start"})) IN
      /\ Len(currentContentBlocks) = n
      /\ \A k \in 1..n :
           LET start == events[NthStart(events, k)] IN
             /\ start.index = k - 1
             /\ currentContentBlocks[k].type = start.content_block.type
      /\ \A k \in 1..Len(currentContentBlocks) :
           /\ currentContentBlocks[k].type = "text" =>
                "input" \notin DOMAIN currentContentBlocks[k]
           /\ currentContentBlocks[k].type = "tool_use" =>
                "text" \notin DOMAIN currentContentBlocks[k]

----------------------------------------------------------------------------
(* C27 *)

\* The delta type that goes with a kind of block.
DeltaTypeOf(kind) == IF kind = "text" THEN "text_delta" ELSE "input_json_delta"

\* C27: every content_block_delta is written at an index for which a
\* content_block_start was written before and no content_block_stop since,
\* and its type goes with the kind of the block started last at that
\* index: text_delta for text, input_json_delta for tool_use.
C27_DeltasGoToOpenBlockOfTheirKind ==
  \A d \in Positions(events, {"content_block_delta"}) :
    LET starts == {s \in Positions(events, {"content_block_start"}) :
                     s < d /\ events[s].index = events[d].index}
    IN /\ starts # {}
       /\ ~\E p \in Positions(events, {"content_block_stop"}) :
             /\ Largest(starts) < p
             /\ p < d
             /\ events[p].index = events[d].index
       /\ events[d].delta.type = DeltaTypeOf(events[Largest(starts)].content_block.type)
=============================================================================
